---- MODULE Spec2Model ----
(***************************************************************************)
(* Model of the invoice / purchase-order matcher backend:                  *)
(*   - backend/utils.py : normalize_text, find_best_item_match,            *)
(*                        perform_matching (the reconciliation engine)     *)
(*   - backend/app.py   : job_manager, submit_job, get_status and the      *)
(*                        background thread run_matching_job               *)
(*                                                                         *)
(* Python values are modelled as follows.                                  *)
(*   str    a sequence of one-character strings                            *)
(*   number an integer; money is counted in units of 0.005, so that the    *)
(*          code's tolerance 0.01 is 2 units and differences below, at and *)
(*          above the tolerance all exist                                  *)
(*   dict   a record holding every key of the schema, with the sets        *)
(*          "absent" (keys the dict does not have) and "null" (keys whose  *)
(*          value is None); an absent or null key holds a fixed filler     *)
(*   an exception is an outcome of the operator that raises it             *)
(***************************************************************************)
EXTENDS Integers, Sequences, FiniteSets, TLC

\* ------------------------------------------------------------------ bounds

\* Number of job ids uuid4 can hand out (jobs submitted in one run).
MaxJobs == 2
\* Number of concurrently served HTTP requests (request-handler threads).
MaxHandlers == 1
\* Longest item list of a document handed to perform_matching.
MaxItems == 2
\* Longest string handed to normalize_text.
MaxText == 4

\* ------------------------------------------------------- strings (utils.py)

NoneText == <<"N", "o", "n", "e">>

UpperChars == <<"A", "B", "C", "D", "E", "F", "G", "H", "I", "J", "K", "L", "M",
               "N", "O", "P", "Q", "R", "S", "T", "U", "V", "W", "X", "Y", "Z">>
LowerChars == <<"a", "b", "c", "d", "e", "f", "g", "h", "i", "j", "k", "l", "m",
               "n", "o", "p", "q", "r", "s", "t", "u", "v", "w", "x", "y", "z">>

\* str.lower() on one character
LowerChar(c) ==
    IF \E i \in 1..Len(UpperChars) : UpperChars[i] = c
    THEN LowerChars[CHOOSE i \in 1..Len(UpperChars) : UpperChars[i] = c]
    ELSE c

\* the class \s of the regular expression, and the separators of str.split()
IsSpace(c) == c \in {" ", "\t", "\n"}

\* the class [a-z0-9\s]
IsKeptChar(c) ==
    \/ c \in {"a", "b", "c", "d", "e", "f", "g", "h", "i", "j", "k", "l", "m",
              "n", "o", "p", "q", "r", "s", "t", "u", "v", "w", "x", "y", "z"}
    \/ c \in {"0", "1", "2", "3", "4", "5", "6", "7", "8", "9"}
    \/ IsSpace(c)

\* text.lower()
Lower(text) == [i \in 1..Len(text) |-> LowerChar(text[i])]

\* a variant of StripPunct that removes nothing
StripPunct_keep_all(text) == text

\* re.sub(r'[^a-z0-9\s]', '', text)
StripPunct(text) == SelectSeq(text, IsKeptChar)

\* text.split(): the maximal runs of non-space characters, in order; the scan
\* from position i on, with the words completed so far and the word being read
RECURSIVE SplitFrom(_, _, _, _)
SplitFrom(text, i, words, word) ==
    IF i > Len(text)
    THEN IF word = <<>> THEN words ELSE Append(words, word)
    ELSE SplitFrom(text, i + 1,
                   IF IsSpace(text[i]) /\ word # <<>> THEN Append(words, word) ELSE words,
                   IF IsSpace(text[i]) THEN <<>> ELSE Append(word, text[i]))

Split(text) == SplitFrom(text, 1, <<>>, <<>>)

\* ' '.join(words)
RECURSIVE Join(_)
Join(words) ==
    IF words = <<>> THEN <<>>
    ELSE IF Len(words) = 1 THEN words[1]
    ELSE words[1] \o <<" ">> \o Join(Tail(words))

\* normalize_text(text) for a str argument
normalize_text(text) == Join(Split(StripPunct(Lower(text))))

\* The call as a frame: the argument, the local "text" and the line reached.
NT_Start(text) == [pc |-> "L40", arg |-> text, text |-> text]
\* line 40
NT_Lower(f) == [f EXCEPT !.pc = "L41", !.text = Lower(f.text)]
\* line 41
NT_Sub(f) == [f EXCEPT !.pc = "L42", !.text = StripPunct(f.text)]
\* line 42: the value returned
NT_Return(f) == [f EXCEPT !.pc = "return", !.text = Join(Split(f.text))]

\* Python's "needle in hay" on str
Contains(hay, needle) ==
    \E i \in 0..(Len(hay) - Len(needle)) :
        SubSeq(hay, i + 1, i + Len(needle)) = needle

\* str.startswith(prefix)
StartsWith(text, prefix) ==
    /\ Len(text) >= Len(prefix)
    /\ SubSeq(text, 1, Len(prefix)) = prefix

\* ----------------------------------------------------- documents (dicts)

ItemKeys == {"description", "quantity", "unit_price"}
DocKeys == {"vendor_name", "total_amount", "items"}

\* d.get(key, default) finds the key
HasKey(d, key) == key \notin d.absent
\* the value found is None
IsNone(d, key) == key \in d.null
\* what an f-string prints for d.get(key)
Shown(d, key) == IF key \in d.absent \cup d.null THEN NoneText ELSE d[key]

\* a line item with all three keys present and not None
Item(desc, qty, price) ==
    [description |-> desc, quantity |-> qty, unit_price |-> price,
     absent |-> {}, null |-> {}]

\* a line item without the keys in "absent" and with None under those in "null"
PartialItem(desc, qty, price, absent, null) ==
    [description |-> IF "description" \in absent \cup null THEN <<>> ELSE desc,
     quantity |-> IF "quantity" \in absent \cup null THEN 0 ELSE qty,
     unit_price |-> IF "unit_price" \in absent \cup null THEN 0 ELSE price,
     absent |-> absent, null |-> null]

\* a structured document with all keys present and not None
Doc(vendor, total, items) ==
    [vendor_name |-> vendor, total_amount |-> total, items |-> items,
     absent |-> {}, null |-> {}]

\* a structured document without the keys in "absent", None under those in "null"
PartialDoc(vendor, total, items, absent, null) ==
    [vendor_name |-> IF "vendor_name" \in absent \cup null THEN <<>> ELSE vendor,
     total_amount |-> IF "total_amount" \in absent \cup null THEN 0 ELSE total,
     items |-> IF "items" \in absent \cup null THEN <<>> ELSE items,
     absent |-> absent, null |-> null]

\* every required key of the schema is there and holds a value
WellFormedItem(item) == item.absent = {} /\ item.null = {}
WellFormed(doc) ==
    /\ doc.absent = {} /\ doc.null = {}
    /\ \A i \in 1..Len(doc.items) : WellFormedItem(doc.items[i])

\* bool(item) of a dict: an empty dict is falsy
Truthy(item) == item.absent # ItemKeys

\* a variant of Abs that returns the difference as it is
Abs_signed(x) == x

\* abs(x)
Abs(x) == IF x < 0 THEN 0 - x ELSE x

\* the tolerance 0.01 of the total and unit-price checks, in units of 0.005
Tolerance == 2

\* ------------------------------------------- find_best_item_match (utils.py)

\* the loop over po_items from position i on: the index of the first item
\* whose normalized description contains, or is contained in, inv_norm
\* (0: the loop ended, None is returned), and the list po_items as the call
\* leaves it; normalize_text(None) raises
RECURSIVE ScanPool(_, _, _)
ScanPool(inv_norm, po_items, i) ==
    IF i > Len(po_items) THEN [exc |-> "", index |-> 0, po_items |-> po_items]
    ELSE IF IsNone(po_items[i], "description")
         THEN [exc |-> "AttributeError", index |-> 0, po_items |-> po_items]
         ELSE LET po_norm == normalize_text(po_items[i].description)
              IN  IF Contains(po_norm, inv_norm) \/ Contains(inv_norm, po_norm)
                  THEN [exc |-> "", index |-> i, po_items |-> po_items]
                  ELSE ScanPool(inv_norm, po_items, i + 1)

\* a variant of find_best_item_match that tests one direction of containment
\* only: the invoice description inside the PO description
find_best_item_match_one_way(invoice_item, po_items) ==
    LET inv_norm == normalize_text(invoice_item.description)
        hits == {i \in 1..Len(po_items) :
                    Contains(normalize_text(po_items[i].description), inv_norm)}
    IN  [exc |-> "",
         index |-> IF hits = {} THEN 0 ELSE CHOOSE i \in hits : \A h \in hits : i <= h,
         po_items |-> po_items]

\* a variant of find_best_item_match that returns the last hit of the pool
find_best_item_match_last(invoice_item, po_items) ==
    LET inv_norm == normalize_text(invoice_item.description)
        hits == {i \in 1..Len(po_items) :
                    \/ Contains(normalize_text(po_items[i].description), inv_norm)
                    \/ Contains(inv_norm, normalize_text(po_items[i].description))}
    IN  [exc |-> "",
         index |-> IF hits = {} THEN 0 ELSE CHOOSE i \in hits : \A h \in hits : h <= i,
         po_items |-> po_items]

find_best_item_match(invoice_item, po_items) ==
    IF IsNone(invoice_item, "description")
    THEN [exc |-> "AttributeError", index |-> 0, po_items |-> po_items]
    ELSE ScanPool(normalize_text(invoice_item.description), po_items, 1)

\* a variant of RemoveFirstEqual that drops every element equal to x
RemoveAllEqual(list, x) ==
    LET Differs(y) == y # x
    IN  SelectSeq(list, Differs)

\* list.remove(x): drops the first element equal to x
RemoveFirstEqual(list, x) ==
    LET first == CHOOSE j \in 1..Len(list) :
                     /\ list[j] = x
                     /\ \A h \in 1..(j - 1) : list[h] # x
    IN  SubSeq(list, 1, first - 1) \o SubSeq(list, first + 1, Len(list))

\* ----------------------------------------------- perform_matching (utils.py)
\* The call is a frame: its locals, the place it has reached (pc) and, once it
\* has raised, the exception (pc = "raise").  matched is not a local of the
\* code: it lists, per invoice item processed, the PO item it consumed.

\* lines 134-142: the results dict as constructed
PM_Start(invoice_data, po_data) ==
    [pc |-> "vendor",
     invoice_data |-> invoice_data,
     po_data |-> po_data,
     results |-> [isMatch |-> TRUE,
                  status |-> "APPROVED",
                  summary |-> <<"Perfect 2-Way Match! Vendor and Total Amount verified.">>,
                  details |-> <<>>,
                  mismatch_categories |-> <<>>,
                  invoice_data |-> invoice_data,
                  po_data |-> po_data],
     po_items_remaining |-> <<>>,
     line_item_mismatch |-> FALSE,
     k |-> 1,
     matched |-> <<>>,
     exc |-> ""]

PM_Raise(f, exc) == [f EXCEPT !.pc = "raise", !.exc = exc]

PM_Detail(f, line) == [f EXCEPT !.results.details = Append(@, line)]

\* lines 145-152: the vendor check (normalize_text(None) raises)
PM_Vendor(f) ==
    IF IsNone(f.invoice_data, "vendor_name") \/ IsNone(f.po_data, "vendor_name")
    THEN PM_Raise(f, "AttributeError")
    ELSE LET inv_vendor == normalize_text(f.invoice_data.vendor_name)
             po_vendor == normalize_text(f.po_data.vendor_name)
         IN  IF inv_vendor # po_vendor
             THEN [f EXCEPT
                     !.pc = "total",
                     !.results.isMatch = FALSE,
                     !.results.mismatch_categories = Append(@, "Vendor Mismatch"),
                     !.results.details =
                         Append(@, <<"Vendor Mismatch", Shown(f.invoice_data, "vendor_name"),
                                     Shown(f.po_data, "vendor_name")>>)]
             ELSE [f EXCEPT
                     !.pc = "total",
                     !.results.details =
                         Append(@, <<"Vendor Match", Shown(f.invoice_data, "vendor_name")>>)]

\* lines 155-163: the total check (float(None) raises)
PM_Total(f) ==
    IF IsNone(f.invoice_data, "total_amount") \/ IsNone(f.po_data, "total_amount")
    THEN PM_Raise(f, "TypeError")
    ELSE LET inv_total == f.invoice_data.total_amount
             po_total == f.po_data.total_amount
         IN  IF Abs(inv_total - po_total) > Tolerance
             THEN [f EXCEPT
                     !.pc = "items",
                     !.results.isMatch = FALSE,
                     !.results.mismatch_categories = Append(@, "Total Price Variance"),
                     !.results.details =
                         Append(@, <<"Total Amount Mismatch", inv_total, po_total,
                                     Abs(inv_total - po_total)>>)]
             ELSE [f EXCEPT
                     !.pc = "items",
                     !.results.details = Append(@, <<"Total Amount Match", inv_total>>)]

\* lines 166-172: the mutable copy of the PO items (list(None) raises, and so
\* does the for statement over None)
PM_Items(f) ==
    IF IsNone(f.po_data, "items") \/ IsNone(f.invoice_data, "items")
    THEN PM_Raise(f, "TypeError")
    ELSE [f EXCEPT !.pc = "loop",
                   !.po_items_remaining = f.po_data.items,
                   !.line_item_mismatch = FALSE,
                   !.k = 1]

\* lines 178-193: the quantity and unit-price checks of a matched pair; the
\* detail lines read inv_item['description'], which raises on a missing key,
\* and None - number raises
PM_Compare(f, inv_item, po_item) ==
    IF IsNone(inv_item, "quantity") \/ IsNone(po_item, "quantity")
    THEN PM_Raise(f, "TypeError")
    ELSE LET qty_bad == Abs(inv_item.quantity - po_item.quantity) > 0
             f1 == IF qty_bad
                   THEN [f EXCEPT
                           !.results.isMatch = FALSE,
                           !.line_item_mismatch = TRUE,
                           !.results.details =
                               Append(@, <<"QTY MISMATCH", Shown(inv_item, "description"),
                                           inv_item.quantity, po_item.quantity>>)]
                   ELSE f
         IN  IF qty_bad /\ ~HasKey(inv_item, "description")
             THEN PM_Raise(f, "KeyError")
             ELSE IF IsNone(inv_item, "unit_price") \/ IsNone(po_item, "unit_price")
             THEN PM_Raise(f, "TypeError")
             ELSE LET price_bad ==
                          Abs(inv_item.unit_price - po_item.unit_price) > Tolerance
                  IN  IF price_bad /\ ~HasKey(inv_item, "description")
                      THEN PM_Raise(f, "KeyError")
                      ELSE IF price_bad
                      THEN [f1 EXCEPT
                              !.results.isMatch = FALSE,
                              !.line_item_mismatch = TRUE,
                              !.results.details =
                                  Append(@, <<"PRICE MISMATCH", Shown(inv_item, "description"),
                                              inv_item.unit_price, po_item.unit_price>>)]
                      ELSE f1

\* a variant of PM_Unmatched that adds the category at every unmatched item
PM_Unmatched_adds_category(f, inv_item) ==
    IF ~HasKey(inv_item, "description")
    THEN PM_Raise(f, "KeyError")
    ELSE [f EXCEPT
            !.results.isMatch = FALSE,
            !.line_item_mismatch = TRUE,
            !.matched = Append(@, 0),
            !.k = @ + 1,
            !.results.mismatch_categories = Append(@, "Line Item Discrepancy"),
            !.results.details =
                Append(@, <<"UNMATCHED ITEM", Shown(inv_item, "description")>>)]

\* lines 198-200: the invoice item found no PO item
PM_Unmatched(f, inv_item) ==
    IF ~HasKey(inv_item, "description")
    THEN PM_Raise(f, "KeyError")
    ELSE [f EXCEPT
            !.results.isMatch = FALSE,
            !.line_item_mismatch = TRUE,
            !.matched = Append(@, 0),
            !.k = @ + 1,
            !.results.details =
                Append(@, <<"UNMATCHED ITEM", Shown(inv_item, "description")>>)]

\* line 196: po_items_remaining.remove(matched_po_item)
PM_Consume(f, po_item) ==
    [f EXCEPT !.po_items_remaining = RemoveFirstEqual(@, po_item),
              !.matched = Append(@, 1),
              !.k = @ + 1]

\* lines 172-200: one pass of the for loop, over the k-th invoice item; the
\* pool goes on as find_best_item_match leaves it
PM_Loop(f) ==
    IF f.k > Len(f.invoice_data.items)
    THEN [f EXCEPT !.pc = "missing"]
    ELSE LET inv_item == f.invoice_data.items[f.k]
             found == find_best_item_match(inv_item, f.po_items_remaining)
             f0 == [f EXCEPT !.po_items_remaining = found.po_items]
         IN  IF found.exc # ""
             THEN PM_Raise(f0, found.exc)
             ELSE IF found.index # 0 /\ Truthy(found.po_items[found.index])
             THEN LET po_item == found.po_items[found.index]
                      compared == PM_Compare(f0, inv_item, po_item)
                  IN  IF compared.pc = "raise"
                      THEN compared
                      ELSE PM_Consume(compared, po_item)
             ELSE PM_Unmatched(f0, inv_item)

\* a variant of PM_Missing that reports the number of PO items of the
\* document instead of the number left in the pool
PM_Missing_counts_all(f) ==
    LET f1 == IF f.po_items_remaining # <<>>
              THEN [f EXCEPT
                      !.results.isMatch = FALSE,
                      !.line_item_mismatch = TRUE,
                      !.results.details =
                          Append(@, <<"MISSING ITEMS", Len(f.po_data.items)>>)]
              ELSE f
    IN  IF f1.line_item_mismatch
        THEN [f1 EXCEPT !.pc = "summary",
                        !.results.mismatch_categories = Append(@, "Line Item Discrepancy")]
        ELSE [f1 EXCEPT !.pc = "summary",
                        !.results.details = Append(@, <<"All Line Items Verified.">>)]

\* lines 203-212: PO items left over, and the line-item category
PM_Missing(f) ==
    LET f1 == IF f.po_items_remaining # <<>>
              THEN [f EXCEPT
                      !.results.isMatch = FALSE,
                      !.line_item_mismatch = TRUE,
                      !.results.details =
                          Append(@, <<"MISSING ITEMS", Len(f.po_items_remaining)>>)]
              ELSE f
    IN  IF f1.line_item_mismatch
        THEN [f1 EXCEPT !.pc = "summary",
                        !.results.mismatch_categories = Append(@, "Line Item Discrepancy")]
        ELSE [f1 EXCEPT !.pc = "summary",
                        !.results.details = Append(@, <<"All Line Items Verified.">>)]

\* sorted(list(set(categories))): the category names in alphabetical order
SortedCategories == <<"Line Item Discrepancy", "Total Price Variance", "Vendor Mismatch">>

InList(list, x) == \E i \in 1..Len(list) : list[i] = x

SortedSet(categories) ==
    LET IsListed(c) == InList(categories, c)
    IN  SelectSeq(SortedCategories, IsListed)

\* a variant of PM_Summary that writes the summary but leaves the status as
\* line 136 set it
PM_Summary_keeps_status(f) ==
    IF ~f.results.isMatch
    THEN [f EXCEPT
            !.pc = "return",
            !.results.summary =
                <<"CRITICAL DISCREPANCY: Review required due to",
                  SortedSet(f.results.mismatch_categories)>>]
    ELSE [f EXCEPT
            !.pc = "return",
            !.results.summary =
                <<"Perfect 2-Way Match! All key fields and line items verified.">>]

\* lines 216-227: status and summary
PM_Summary(f) ==
    IF ~f.results.isMatch
    THEN [f EXCEPT
            !.pc = "return",
            !.results.status = "NEEDS REVIEW",
            !.results.summary =
                <<"CRITICAL DISCREPANCY: Review required due to",
                  SortedSet(f.results.mismatch_categories)>>]
    ELSE [f EXCEPT
            !.pc = "return",
            !.results.summary =
                <<"Perfect 2-Way Match! All key fields and line items verified.">>]

\* the next statement of the frame
PM_Step(f) ==
    CASE f.pc = "vendor" -> PM_Vendor(f)
      [] f.pc = "total" -> PM_Total(f)
      [] f.pc = "items" -> PM_Items(f)
      [] f.pc = "loop" -> PM_Loop(f)
      [] f.pc = "missing" -> PM_Missing(f)
      [] f.pc = "summary" -> PM_Summary(f)
      [] OTHER -> f

RECURSIVE PM_Run(_)
PM_Run(f) == IF f.pc \in {"return", "raise"} THEN f ELSE PM_Run(PM_Step(f))

\* perform_matching(invoice_data, po_data): the frame at its return or raise
perform_matching(invoice_data, po_data) == PM_Run(PM_Start(invoice_data, po_data))

\* ------------------------------------------------------------ state (app.py)

VARIABLES
    client,        \* whether the Gemini client was initialised (module start)
    job_manager,   \* job id -> {status, progress, results, error}
    t_pc,          \* per job id: the line its run_matching_job thread is at
    t_loc,         \* per job id: the locals of that thread
    h_pc,          \* per request handler: the line of submit_job / get_status
    h_loc,         \* per request handler: its request, locals and response
    issued,        \* the ids uuid4 has produced
    returned,      \* the ids a 202 response has carried to a caller
    pm,            \* the frame of one call of perform_matching
    nt             \* the frame of one call of normalize_text

job_vars == <<client, job_manager, t_pc, t_loc, h_pc, h_loc, issued, returned>>
vars == <<client, job_manager, t_pc, t_loc, h_pc, h_loc, issued, returned, pm, nt>>

JobIds == 1..MaxJobs
Handlers == 1..MaxHandlers

\* Python's None for a field that otherwise holds a value: the empty tuple;
\* a value v is held as <<v>>
None == <<>>
Some(v) == <<v>>
\* a variant of NewJob whose results start as an empty dict
NewJob_empty_results ==
    [status |-> "processing", progress |-> 0, results |-> Some(<<>>), error |-> None]

\* line 133: the record of a new job
NewJob == [status |-> "processing", progress |-> 0, results |-> None, error |-> None]

\* --------------------------------------------- adapters, as the job sees them

TextPlain == <<"t", "e", "x", "t">>
TextError == <<"E", "r", "r", "o", "r", ":", " ", "x">>
ErrorPrefix == <<"E", "r", "r", "o", "r">>

\* what extract_text_from_file returns (utils.py 44-88): text, or a string
\* that starts with "Error"
RawTexts == {TextPlain, TextError}

\* lines 61-67 and 78-84: the mock documents used without a client; money in
\* units of 0.005 (1295.00 and 1200.00)
MockDoc ==
    Doc(<<"T", "e", "c", "h", "S", "u", "p", "p", "l", "y", " ", "C", "o", ".">>,
        259000,
        <<Item(<<"L", "a", "p", "t", "o", "p">>, 1, 240000)>>)

\* a document whose vendor_name is null: perform_matching raises on it
NullVendorDoc == PartialDoc(<<>>, 259000, <<>>, {}, {"vendor_name"})

\* what gemini_extract_data returns (utils.py 111-128): the parsed document,
\* or a dict with the key "error"
AIResults ==
    {[kind |-> "doc", doc |-> MockDoc],
     [kind |-> "doc", doc |-> NullVendorDoc],
     [kind |-> "error", doc |-> MockDoc]}

\* a variant of HasErrorKey that never finds the key
HasErrorKey_never(data) == FALSE

\* "error" in data
HasErrorKey(data) == data.kind = "error"

\* the documents a job can hand to perform_matching, and line 93 on each pair
JobDocs == {data.doc : data \in AIResults}
Line93 == [invoice_data \in JobDocs, po_data \in JobDocs |->
              perform_matching(invoice_data, po_data)]
\* ------------------------------------------ run_matching_job (app.py 41-107)
\* One action per statement that touches job_manager, together with the local
\* computation that precedes it.  The writes to the job's record:

Line44(rec) == [rec EXCEPT !.progress = 5]
Line50(rec) == [rec EXCEPT !.progress = 15]
Line52(rec) == [rec EXCEPT !.progress = 25]
\* lines 68 and 72
Line72(rec) == [rec EXCEPT !.progress = 50]
\* a variant of Line89 that already marks the job completed
Line89_completed_early(rec) == [rec EXCEPT !.progress = 75, !.status = "completed"]

\* lines 85 and 89
Line89(rec) == [rec EXCEPT !.progress = 75]
Line96(rec, final_results) == [rec EXCEPT !.results = Some(final_results)]
Line97(rec) == [rec EXCEPT !.progress = 100]
Line98(rec) == [rec EXCEPT !.status = "completed"]
Line104(rec, e) == [rec EXCEPT !.error = Some(e)]
\* a variant of Line105 that leaves the status as it is
Line105_no_status(rec) == rec

Line105(rec) == [rec EXCEPT !.status = "failed"]
\* a variant of Line106 that resets the progress of a failed job
Line106_reset(rec) == [rec EXCEPT !.progress = 0]

Line106(rec) == [rec EXCEPT !.progress = 100]

\* calls is not a local of the code: it lists the calls the thread has made
\* to extract_text_from_file, gemini_extract_data and perform_matching, each
\* with the document it was for and what it returned (None: it raised)
NoLocals ==
    [raw_invoice_text |-> None, raw_po_text |-> None,
     invoice_data |-> None, po_data |-> None, e |-> None, calls |-> <<>>]

Call(fn, doc, out) == [fn |-> fn, doc |-> doc, out |-> out]

\* the locals with one more call on record
Called(loc, fn, doc, out) == [loc EXCEPT !.calls = Append(@, Call(fn, doc, out))]

\* the thread has ended: its locals are gone
Ended(loc) == [NoLocals EXCEPT !.calls = loc.calls]

\* a variant of ExtractionFailed that tests the invoice text only
ExtractionFailed_invoice_only(raw_invoice_text, raw_po_text) ==
    StartsWith(raw_invoice_text, ErrorPrefix)

\* line 54
ExtractionFailed(raw_invoice_text, raw_po_text) ==
    StartsWith(raw_invoice_text, ErrorPrefix) \/ StartsWith(raw_po_text, ErrorPrefix)

\* lines 58-72 and 76-89: the mock document without a client, else the adapter
StructuredData == IF client THEN AIResults ELSE {[kind |-> "doc", doc |-> MockDoc]}

\* a variant of Proceed in which all records are one shared dict, so that the
\* write shows in every job's record
Proceed_shared_record(j, rec, next, loc) ==
    /\ job_manager' = [i \in DOMAIN job_manager |-> rec]
    /\ t_pc' = [t_pc EXCEPT ![j] = next]
    /\ t_loc' = [t_loc EXCEPT ![j] = loc]
    /\ UNCHANGED <<client, h_pc, h_loc, issued, returned, pm, nt>>

\* lines 71 and 88: with a client the document comes from a call of
\* gemini_extract_data; without one no call is made
Extracted(loc, doc, data) ==
    IF client THEN Called(loc, "gemini_extract_data", doc, Some(data)) ELSE loc

\* the thread moves on, with its record rewritten
Proceed(j, rec, next, loc) ==
    /\ job_manager' = [job_manager EXCEPT ![j] = rec]
    /\ t_pc' = [t_pc EXCEPT ![j] = next]
    /\ t_loc' = [t_loc EXCEPT ![j] = loc]
    /\ UNCHANGED <<client, h_pc, h_loc, issued, returned, pm, nt>>

\* an exception inside the try block: control passes to line 101
Raise(j, e, loc) ==
    /\ t_pc' = [t_pc EXCEPT ![j] = "L103"]
    /\ t_loc' = [t_loc EXCEPT ![j] = [loc EXCEPT !.e = Some(e)]]
    /\ UNCHANGED <<client, job_manager, h_pc, h_loc, issued, returned, pm, nt>>

\* line 44, outside the try block: a missing record ends the thread
T_Line44(j) ==
    /\ t_pc[j] = "L44"
    /\ IF j \in DOMAIN job_manager
       THEN Proceed(j, Line44(job_manager[j]), "L49", t_loc[j])
       ELSE /\ t_pc' = [t_pc EXCEPT ![j] = "KeyError"]
            /\ UNCHANGED <<client, job_manager, t_loc, h_pc, h_loc, issued, returned, pm, nt>>

\* lines 49-50
T_Line49(j) ==
    /\ t_pc[j] = "L49"
    /\ \/ \E text \in RawTexts :
            Proceed(j, Line50(job_manager[j]), "L51",
                    [Called(t_loc[j], "extract_text_from_file", "Invoice", Some(text))
                        EXCEPT !.raw_invoice_text = Some(text)])
       \/ Raise(j, <<"extract_text_from_file raised">>,
                Called(t_loc[j], "extract_text_from_file", "Invoice", None))

\* lines 51-52
T_Line51(j) ==
    /\ t_pc[j] = "L51"
    /\ \/ \E text \in RawTexts :
            Proceed(j, Line52(job_manager[j]), "L54",
                    [Called(t_loc[j], "extract_text_from_file", "Purchase Order", Some(text))
                        EXCEPT !.raw_po_text = Some(text)])
       \/ Raise(j, <<"extract_text_from_file raised">>,
                Called(t_loc[j], "extract_text_from_file", "Purchase Order", None))

\* lines 54-72
T_Line54(j) ==
    /\ t_pc[j] = "L54"
    /\ LET inv == t_loc[j].raw_invoice_text[1]
           po == t_loc[j].raw_po_text[1]
       IN  IF ExtractionFailed(inv, po)
           THEN Raise(j, <<"File Extraction Error", inv, po>>, t_loc[j])
           ELSE \E data \in StructuredData :
                    Proceed(j, Line72(job_manager[j]), "L73",
                            [Extracted(t_loc[j], "Invoice", data)
                                EXCEPT !.invoice_data = Some(data)])

\* lines 73-89
T_Line73(j) ==
    /\ t_pc[j] = "L73"
    /\ IF client /\ HasErrorKey(t_loc[j].invoice_data[1])
       THEN Raise(j, <<"AI Extraction Error (Invoice)">>, t_loc[j])
       ELSE \E data \in StructuredData :
                Proceed(j, Line89(job_manager[j]), "L90",
                        [Extracted(t_loc[j], "Purchase Order", data)
                            EXCEPT !.po_data = Some(data)])

\* lines 90-96
T_Line90(j) ==
    /\ t_pc[j] = "L90"
    /\ IF client /\ HasErrorKey(t_loc[j].po_data[1])
       THEN Raise(j, <<"AI Extraction Error (PO)">>, t_loc[j])
       ELSE LET call == Line93[t_loc[j].invoice_data[1].doc, t_loc[j].po_data[1].doc]
            IN  IF call.pc = "raise"
                THEN Raise(j, <<call.exc>>,
                           Called(t_loc[j], "perform_matching", "", None))
                ELSE Proceed(j, Line96(job_manager[j], call.results), "L97",
                             Called(t_loc[j], "perform_matching", "", Some(call.results)))

T_Line97(j) ==
    /\ t_pc[j] = "L97"
    /\ Proceed(j, Line97(job_manager[j]), "L98", t_loc[j])

\* lines 98-99: the thread ends
T_Line98(j) ==
    /\ t_pc[j] = "L98"
    /\ Proceed(j, Line98(job_manager[j]), "done", Ended(t_loc[j]))

\* lines 103-104
T_Line103(j) ==
    /\ t_pc[j] = "L103"
    /\ IF j \in DOMAIN job_manager
       THEN Proceed(j, Line104(job_manager[j], t_loc[j].e[1]), "L105", t_loc[j])
       ELSE /\ t_pc' = [t_pc EXCEPT ![j] = "done"]
            /\ t_loc' = [t_loc EXCEPT ![j] = Ended(t_loc[j])]
            /\ UNCHANGED <<client, job_manager, h_pc, h_loc, issued, returned, pm, nt>>

T_Line105(j) ==
    /\ t_pc[j] = "L105"
    /\ Proceed(j, Line105(job_manager[j]), "L106", t_loc[j])

\* lines 106-107: the thread ends
T_Line106(j) ==
    /\ t_pc[j] = "L106"
    /\ Proceed(j, Line106(job_manager[j]), "done", Ended(t_loc[j]))

run_matching_job(j) ==
    \/ T_Line44(j)
    \/ T_Line49(j)
    \/ T_Line51(j)
    \/ T_Line54(j)
    \/ T_Line73(j)
    \/ T_Line90(j)
    \/ T_Line97(j)
    \/ T_Line98(j)
    \/ T_Line103(j)
    \/ T_Line105(j)
    \/ T_Line106(j)
\* ------------------------------------------------ submit_job (app.py 111-147)

\* one entry of request.files: whether the key is there, and its filename
Uploads ==
    {[present |-> FALSE, filename |-> ""],
     [present |-> TRUE, filename |-> ""],
     [present |-> TRUE, filename |-> "doc.pdf"]}

NoUpload == [present |-> FALSE, filename |-> ""]
\* a variant of Validate without the filename check of line 121
Validate_presence_only(invoice_file, po_file) ==
    IF ~invoice_file.present \/ ~po_file.present
    THEN "Both 'invoice_file' and 'po_file' are required."
    ELSE ""

\* lines 115-122: the 400 message, "" when the request passes
Validate(invoice_file, po_file) ==
    IF ~invoice_file.present \/ ~po_file.present
    THEN "Both 'invoice_file' and 'po_file' are required."
    ELSE IF invoice_file.filename = "" \/ po_file.filename = ""
    THEN "Filenames cannot be empty."
    ELSE ""

\* line 132: uuid.uuid4() yields an id it has not yielded before
FreshIds == JobIds \ issued
\* a variant of Line133 that does not insert the record
Line133_no_insert(table, job_id) == table

\* line 133
Line133(table, job_id) == (job_id :> NewJob) @@ table

\* line 145: thread.start()
Line145(pcs, job_id) == [pcs EXCEPT ![job_id] = "L44"]

NoResponse ==
    [code |-> 0, status |-> "", progress |-> 0, results |-> None, error |-> None,
     job_id |-> 0, message |-> ""]

NoRequest ==
    [op |-> "", invoice_file |-> NoUpload, po_file |-> NoUpload, job_id |-> 0,
     response |-> NoResponse]

\* the handler returns its response
Respond(h, loc, response) ==
    /\ h_pc' = [h_pc EXCEPT ![h] = "responded"]
    /\ h_loc' = [h_loc EXCEPT ![h] = [loc EXCEPT !.response = response]]

\* lines 115-133: validation, reading the uploads, the id and the new record
H_Submit(h) ==
    /\ h_pc[h] = "idle"
    /\ \E invoice_file \in Uploads, po_file \in Uploads :
         LET loc == [NoRequest EXCEPT !.op = "submit",
                                      !.invoice_file = invoice_file,
                                      !.po_file = po_file]
             message == Validate(invoice_file, po_file)
         IN  IF message # ""
             THEN /\ Respond(h, loc, [NoResponse EXCEPT !.code = 400, !.message = message])
                  /\ UNCHANGED <<client, job_manager, t_pc, t_loc, issued, returned, pm, nt>>
             ELSE \/ /\ Respond(h, loc, [NoResponse EXCEPT !.code = 500,
                                                          !.message = "Error reading files"])
                     /\ UNCHANGED <<client, job_manager, t_pc, t_loc, issued, returned, pm, nt>>
                  \/ \E job_id \in FreshIds :
                       /\ issued' = issued \cup {job_id}
                       /\ job_manager' = Line133(job_manager, job_id)
                       /\ h_pc' = [h_pc EXCEPT ![h] = "L135"]
                       /\ h_loc' = [h_loc EXCEPT ![h] = [loc EXCEPT !.job_id = job_id]]
                       /\ UNCHANGED <<client, t_pc, t_loc, returned, pm, nt>>

\* lines 135-145: the background thread is started
H_Line145(h) ==
    /\ h_pc[h] = "L135"
    /\ t_pc' = Line145(t_pc, h_loc[h].job_id)
    /\ h_pc' = [h_pc EXCEPT ![h] = "L147"]
    /\ UNCHANGED <<client, job_manager, t_loc, h_loc, issued, returned, pm, nt>>

\* line 147: the id goes to the caller
H_Line147(h) ==
    /\ h_pc[h] = "L147"
    /\ Respond(h, h_loc[h], [NoResponse EXCEPT !.code = 202, !.job_id = h_loc[h].job_id])
    /\ returned' = returned \cup {h_loc[h].job_id}
    /\ UNCHANGED <<client, job_manager, t_pc, t_loc, issued, pm, nt>>

submit_job(h) == H_Submit(h) \/ H_Line145(h) \/ H_Line147(h)

\* ------------------------------------------------ get_status (app.py 149-180)
\* a variant of JobLookup that creates a default record for an unknown id
JobLookup_setdefault(table, job_id) ==
    [table |-> IF job_id \in DOMAIN table THEN table ELSE (job_id :> NewJob) @@ table,
     found |-> TRUE]

\* lines 152-155: the membership test and the reference to the job's record;
\* the table as the lookup leaves it, and whether the id was found
JobLookup(table, job_id) == [table |-> table, found |-> job_id \in DOMAIN table]

H_GetStatus(h) ==
    /\ h_pc[h] = "idle"
    /\ \E job_id \in JobIds :
         LET loc == [NoRequest EXCEPT !.op = "status", !.job_id = job_id]
             look == JobLookup(job_manager, job_id)
         IN  /\ job_manager' = look.table
             /\ IF look.found
                THEN /\ h_pc' = [h_pc EXCEPT ![h] = "L157"]
                     /\ h_loc' = [h_loc EXCEPT ![h] = loc]
                ELSE Respond(h, loc, [NoResponse EXCEPT !.code = 404, !.job_id = job_id,
                                                       !.message = "Job not found"])
             /\ UNCHANGED <<client, t_pc, t_loc, issued, returned, pm, nt>>

\* the record the handler's reference "job" points to
JobOf(h) == job_manager[h_loc[h].job_id]

\* line 157: the first read of job["status"]
H_Line157(h) ==
    /\ h_pc[h] = "L157"
    /\ h_pc' = [h_pc EXCEPT ![h] = IF JobOf(h).status = "completed" THEN "L158" ELSE "L166"]
    /\ UNCHANGED <<client, job_manager, t_pc, t_loc, h_loc, issued, returned, pm, nt>>

\* lines 158-164
View158(job, job_id) ==
    [NoResponse EXCEPT !.code = 200, !.status = "completed", !.progress = 100,
                       !.results = job.results, !.job_id = job_id]

H_Line158(h) ==
    /\ h_pc[h] = "L158"
    /\ Respond(h, h_loc[h], View158(JobOf(h), h_loc[h].job_id))
    /\ UNCHANGED <<client, job_manager, t_pc, t_loc, issued, returned, pm, nt>>

\* line 166: the second read of job["status"]
H_Line166(h) ==
    /\ h_pc[h] = "L166"
    /\ h_pc' = [h_pc EXCEPT ![h] = IF JobOf(h).status = "failed" THEN "L167" ELSE "L179"]
    /\ UNCHANGED <<client, job_manager, t_pc, t_loc, h_loc, issued, returned, pm, nt>>
\* a variant of View167 that reports the stored progress
View167_stored_progress(job, job_id) ==
    [NoResponse EXCEPT !.code = 500, !.status = "failed", !.progress = job.progress,
                       !.error = job.error, !.job_id = job_id]

\* lines 167-173
View167(job, job_id) ==
    [NoResponse EXCEPT !.code = 500, !.status = "failed", !.progress = 100,
                       !.error = job.error, !.job_id = job_id]

H_Line167(h) ==
    /\ h_pc[h] = "L167"
    /\ Respond(h, h_loc[h], View167(JobOf(h), h_loc[h].job_id))
    /\ UNCHANGED <<client, job_manager, t_pc, t_loc, issued, returned, pm, nt>>

\* lines 177-180
View179(job, job_id) ==
    [NoResponse EXCEPT !.code = 200, !.status = "processing",
                       !.progress = job.progress, !.job_id = job_id]

H_Line179(h) ==
    /\ h_pc[h] = "L179"
    /\ Respond(h, h_loc[h], View179(JobOf(h), h_loc[h].job_id))
    /\ UNCHANGED <<client, job_manager, t_pc, t_loc, issued, returned, pm, nt>>

get_status(h) ==
    H_GetStatus(h) \/ H_Line157(h) \/ H_Line158(h) \/ H_Line166(h) \/ H_Line167(h)
        \/ H_Line179(h)

\* the request is over: the handler takes the next one
H_Finish(h) ==
    /\ h_pc[h] = "responded"
    /\ h_pc' = [h_pc EXCEPT ![h] = "idle"]
    /\ h_loc' = [h_loc EXCEPT ![h] = NoRequest]
    /\ UNCHANGED <<client, job_manager, t_pc, t_loc, issued, returned, pm, nt>>

\* ------------------------------------------------------- the job service

PM_Idle == PM_Start(MockDoc, MockDoc)

NT_Idle == NT_Start(<<>>)

JobInit ==
    /\ client \in BOOLEAN
    /\ job_manager = <<>>
    /\ t_pc = [j \in JobIds |-> "unstarted"]
    /\ t_loc = [j \in JobIds |-> NoLocals]
    /\ h_pc = [h \in Handlers |-> "idle"]
    /\ h_loc = [h \in Handlers |-> NoRequest]
    /\ issued = {}
    /\ returned = {}

Init == JobInit /\ pm = PM_Idle /\ nt = NT_Idle

Next ==
    \/ \E j \in JobIds : run_matching_job(j)
    \/ \E h \in Handlers : submit_job(h)
    \/ \E h \in Handlers : get_status(h)
    \/ \E h \in Handlers : H_Finish(h)

Spec == Init /\ [][Next]_vars
\* ------------------------------------------- one call of perform_matching
\* The documents perform_matching is called with: a header (vendor, total) and
\* item lists of up to MaxItems items.

Seqs(S, n) == UNION {[1..m -> S] : m \in 0..n}

\* {}: a line item with no keys at all
EmptyItem == PartialItem(<<>>, 0, 0, ItemKeys, {})

ItemPool ==
    {Item(<<"a">>, 1, 10),
     Item(<<"a", "b">>, 1, 12),
     Item(<<"A", "-", "b">>, 2, 13),
     Item(<<"w">>, 1, 10),
     EmptyItem}

ItemLists == Seqs(ItemPool, MaxItems)

\* (invoice header, PO header): vendors equal only after normalization and
\* totals at the tolerance; both unequal; vendors unequal; totals beyond the
\* tolerance; a null vendor; the same header twice
HeaderPairs ==
    {<<Doc(<<"a", "b">>, 10, <<>>), Doc(<<"a", "b">>, 10, <<>>)>>,
     <<Doc(<<"A", "b", ".">>, 10, <<>>), Doc(<<"a", "b">>, 12, <<>>)>>,
     <<Doc(<<"A", "b", ".">>, 10, <<>>), Doc(<<"b">>, 13, <<>>)>>,
     <<Doc(<<"a", "b">>, 10, <<>>), Doc(<<"a", " ", "b">>, 10, <<>>)>>,
     <<Doc(<<"a", "b">>, 13, <<>>), Doc(<<"a", "b">>, 10, <<>>)>>,
     <<PartialDoc(<<>>, 10, <<>>, {}, {"vendor_name"}), Doc(<<"a", "b">>, 10, <<>>)>>}

WithItems(doc, items) == [doc EXCEPT !.items = items]

JobIdle ==
    /\ client = FALSE
    /\ job_manager = <<>>
    /\ t_pc = [j \in JobIds |-> "unstarted"]
    /\ t_loc = [j \in JobIds |-> NoLocals]
    /\ h_pc = [h \in Handlers |-> "idle"]
    /\ h_loc = [h \in Handlers |-> NoRequest]
    /\ issued = {}
    /\ returned = {}

MatchInit ==
    /\ JobIdle
    /\ nt = NT_Idle
    /\ \E hp \in HeaderPairs, inv_items \in ItemLists, po_items \in ItemLists :
         pm = PM_Start(WithItems(hp[1], inv_items), WithItems(hp[2], po_items))

M_Vendor == pm.pc = "vendor" /\ pm' = PM_Vendor(pm) /\ UNCHANGED <<job_vars, nt>>
M_Total == pm.pc = "total" /\ pm' = PM_Total(pm) /\ UNCHANGED <<job_vars, nt>>
M_Items == pm.pc = "items" /\ pm' = PM_Items(pm) /\ UNCHANGED <<job_vars, nt>>
M_Loop == pm.pc = "loop" /\ pm' = PM_Loop(pm) /\ UNCHANGED <<job_vars, nt>>
M_Missing == pm.pc = "missing" /\ pm' = PM_Missing(pm) /\ UNCHANGED <<job_vars, nt>>
M_Summary == pm.pc = "summary" /\ pm' = PM_Summary(pm) /\ UNCHANGED <<job_vars, nt>>

MatchNext == M_Vendor \/ M_Total \/ M_Items \/ M_Loop \/ M_Missing \/ M_Summary

SpecMatch == MatchInit /\ [][MatchNext]_vars

\* --------------------------------------------- one call of normalize_text
\* The characters of the strings normalize_text is called with: an upper-case
\* and a lower-case letter, a digit, a punctuation mark, a blank and a tab.
TextChars == {"A", "b", "7", "-", " ", "\t"}

Texts == Seqs(TextChars, MaxText)

NormInit ==
    /\ JobIdle
    /\ pm = PM_Idle
    /\ \E text \in Texts : nt = NT_Start(text)

N_Lower == nt.pc = "L40" /\ nt' = NT_Lower(nt) /\ UNCHANGED <<job_vars, pm>>
N_Sub == nt.pc = "L41" /\ nt' = NT_Sub(nt) /\ UNCHANGED <<job_vars, pm>>
N_Return == nt.pc = "L42" /\ nt' = NT_Return(nt) /\ UNCHANGED <<job_vars, pm>>

NormNext == N_Lower \/ N_Sub \/ N_Return

SpecNorm == NormInit /\ [][NormNext]_vars

\* ======================================================== properties

Terminal == {"completed", "failed"}

Known == DOMAIN job_manager

\* the response handler h has just returned, if any
Responded(h) == h_pc[h] = "responded"
ResponseOf(h) == h_loc[h].response

\* handler h takes a step of get_status
StatusStep(h) ==
    /\ h_pc'[h] # h_pc[h]
    /\ \/ h_pc[h] = "idle" /\ h_loc'[h].op = "status"
       \/ h_pc[h] \in {"L157", "L158", "L166", "L167", "L179"}

\* handler h returns a response in this step
Responds(h) == h_pc[h] # "responded" /\ h_pc'[h] = "responded"

\* C1: once a job's status is completed or failed it never changes again, and
\* the only status changes ever made are processing -> completed and
\* processing -> failed, whichever thread or handler takes the step.
C1_TerminalIsFinal ==
    [][\A j \in Known :
         LET old == job_manager[j].status
             new == job_manager'[j].status
         IN  /\ old \in Terminal => new = old
             /\ new # old => old = "processing" /\ new \in Terminal]_vars

\* C1 witness: one job has completed and another has failed, both threads have
\* ended, and a poll has since been answered.
C1_Witness ==
    /\ \E j \in Known : job_manager[j].status = "completed" /\ t_pc[j] = "done"
    /\ \E j \in Known : job_manager[j].status = "failed" /\ t_pc[j] = "done"
    /\ \E h \in Handlers : Responded(h) /\ ResponseOf(h).status = "failed"

\* the scheduling the claim C2 assumes: a started thread keeps running, and a
\* handler that has inserted a job goes on to start its thread
FairSpec ==
    /\ Spec
    /\ \A j \in JobIds : WF_vars(run_matching_job(j))
    /\ \A h \in Handlers : WF_vars(H_Line145(h))

\* C2: every submitted job eventually reaches a terminal status; a thread that
\* has ended leaves its job terminal, and a failed job has its error recorded.
C2_EventuallyTerminal ==
    /\ \A j \in JobIds :
         (j \in Known) ~> (j \in Known /\ job_manager[j].status \in Terminal)
    /\ [](\A j \in Known :
            /\ t_pc[j] = "done" => job_manager[j].status \in Terminal
            /\ job_manager[j].status = "failed" => job_manager[j].error # None)

\* C2 witness: a job whose reconciliation raised has ended as failed, with the
\* exception as its error.
C2_Witness ==
    \E j \in Known :
        /\ t_pc[j] = "done"
        /\ job_manager[j].status = "failed"
        /\ job_manager[j].error = Some(<<"AttributeError">>)

\* C3: a view with status=processing carries a progress in [0,100).
C3_ProcessingViewBelow100 ==
    \A h \in Handlers :
        Responded(h) /\ ResponseOf(h).status = "processing"
            => ResponseOf(h).progress \in 0..99

\* C4 as claimed: in every state, results is non-null only when
\* status=completed and error is non-null only when status=failed.
C4_FieldsOnlyWhenTerminal ==
    \A j \in Known :
        /\ job_manager[j].results # None => job_manager[j].status = "completed"
        /\ job_manager[j].error # None => job_manager[j].status = "failed"

\* C4 amended: results is non-null only when status=completed or while the
\* job is still processing and its thread stands between its results write
\* (line 96) and its status write (line 98); error is non-null only when
\* status=failed or while the thread stands between its error write (line 104)
\* and its status write (line 105); and every view getStatus returns carries
\* results only with status=completed and an error only with status=failed.
C4_FieldsOnlyWhenTerminalOrBeingFinalized ==
    /\ \A j \in Known :
         /\ job_manager[j].results # None =>
              \/ job_manager[j].status = "completed"
              \/ job_manager[j].status = "processing" /\ t_pc[j] \in {"L97", "L98"}
         /\ job_manager[j].error # None =>
              \/ job_manager[j].status = "failed"
              \/ job_manager[j].status = "processing" /\ t_pc[j] = "L105"
    /\ \A h \in Handlers :
         /\ ResponseOf(h).results # None => ResponseOf(h).status = "completed"
         /\ ResponseOf(h).error # None => ResponseOf(h).status = "failed"

\* C4 witness: a job holds its results while still processing, and a view of a
\* completed job has been returned.
C4_Witness ==
    /\ \E j \in Known :
         job_manager[j].results # None /\ job_manager[j].status = "processing"
    /\ \E h \in Handlers : ResponseOf(h).results # None

\* C5: a view reporting completed carries progress=100 and the job's stored
\* result, never None; a view reporting failed carries progress=100 and the
\* job's stored error, never None.
C5_TerminalViewsComplete ==
    \A h \in Handlers :
        Responded(h) =>
            LET view == ResponseOf(h)
            IN  /\ view.status = "completed" =>
                     /\ view.progress = 100
                     /\ view.results # None
                     /\ view.results = job_manager[view.job_id].results
                /\ view.status = "failed" =>
                     /\ view.progress = 100
                     /\ view.error # None
                     /\ view.error = job_manager[view.job_id].error

\* C5 witness: a failed view was returned while the thread had written the
\* status but not yet the final progress.
C5_Witness ==
    \E h \in Handlers :
        /\ Responded(h)
        /\ ResponseOf(h).status = "failed"
        /\ t_pc[ResponseOf(h).job_id] = "L106"
        /\ job_manager[ResponseOf(h).job_id].progress < 100

\* C6: progress is always in 0..100 and no step decreases it.
C6_ProgressMonotonic ==
    /\ [](\A j \in Known : job_manager[j].progress \in 0..100)
    /\ [][\A j \in Known : job_manager'[j].progress >= job_manager[j].progress]_vars

\* C6 witness: a job that failed at the extraction check (progress 25) has
\* ended with progress 100.
C6_Witness ==
    \E j \in Known :
        /\ t_pc[j] = "done"
        /\ job_manager[j].progress = 100
        /\ job_manager[j].error = Some(<<"File Extraction Error", TextError, TextPlain>>)

\* C7: a successful submit returns an id no earlier submit returned; the
\* record (processing, progress 0) is in the table before the thread is
\* started and before the id is returned; no poll of a returned id is answered
\* NotFound; and no thread finds its record missing.
C7_RecordBeforeThreadAndId ==
    /\ [](/\ returned \subseteq Known
          /\ \A j \in JobIds :
               /\ t_pc[j] # "unstarted" => j \in Known
               /\ t_pc[j] # "KeyError"
          /\ \A h \in Handlers :
               h_pc[h] = "L135" =>
                   /\ h_loc[h].job_id \in Known
                   /\ t_pc[h_loc[h].job_id] = "unstarted"
                   /\ job_manager[h_loc[h].job_id].status = "processing"
                   /\ job_manager[h_loc[h].job_id].progress = 0)
    /\ [][\A h \in Handlers :
            Responds(h) /\ h_loc'[h].response.code \in {202, 404}
                => h_loc'[h].response.job_id \notin returned]_vars

\* C7 witness: two different ids have been returned, and a poll of a returned
\* id was answered (processing, 0) before its thread executed any statement.
C7_Witness ==
    /\ Cardinality(returned) = 2
    /\ \E h \in Handlers :
         /\ Responded(h)
         /\ ResponseOf(h).code = 200
         /\ ResponseOf(h).progress = 0
         /\ ResponseOf(h).job_id \in returned
         /\ t_pc[ResponseOf(h).job_id] = "L44"

\* the request lacks a file or names one ""
C8_InvalidRequest(loc) ==
    \/ ~loc.invoice_file.present
    \/ ~loc.po_file.present
    \/ loc.invoice_file.filename = ""
    \/ loc.po_file.filename = ""

\* C8: a submit with a file missing or with an empty filename is answered 400
\* at once, and the step leaves the job table, the ids and the threads as
\* they were.
C8_InvalidSubmitChangesNothing ==
    [][\A h \in Handlers :
         h_pc[h] = "idle" /\ h_loc'[h].op = "submit" /\ C8_InvalidRequest(h_loc'[h])
             => /\ h_pc'[h] = "responded"
                /\ h_loc'[h].response.code = 400
                /\ job_manager' = job_manager
                /\ t_pc' = t_pc
                /\ issued' = issued]_vars

\* C8 witness: with a job in the table, a submit with both files present and
\* an empty filename was answered 400.
C8_Witness ==
    /\ Known # {}
    /\ \E h \in Handlers :
         /\ Responded(h)
         /\ ResponseOf(h).code = 400
         /\ h_loc[h].invoice_file.present /\ h_loc[h].po_file.present
         /\ h_loc[h].po_file.filename = ""

\* C9: no step of get_status changes the job table, and a poll of an unknown
\* id is answered 404 with no view and no record created.
C9_GetStatusReadOnly ==
    [][\A h \in Handlers :
         StatusStep(h) =>
             /\ job_manager' = job_manager
             /\ h_pc[h] = "idle" /\ h_loc'[h].job_id \notin Known
                    => /\ Responds(h)
                       /\ h_loc'[h].response.code = 404
                       /\ h_loc'[h].response.status = ""]_vars

\* C9 witness: a poll of an unknown id was answered 404 while the table held
\* another job, still processing.
C9_Witness ==
    \E h \in Handlers :
        /\ Responded(h)
        /\ ResponseOf(h).code = 404
        /\ ResponseOf(h).job_id \notin Known
        /\ \E j \in Known : job_manager[j].status = "processing"

\* the position in pool of the first item whose normalized description
\* contains, or is contained in, that of inv_item; 0 if there is none
C10_FirstContaining(inv_item, pool) ==
    LET Fits(i) ==
            \/ Contains(normalize_text(pool[i].description),
                        normalize_text(inv_item.description))
            \/ Contains(normalize_text(inv_item.description),
                        normalize_text(pool[i].description))
        fits == {i \in 1..Len(pool) : Fits(i)}
    IN  IF fits = {} THEN 0 ELSE CHOOSE i \in fits : \A h \in fits : i <= h

C10_Without(list, i) == SubSeq(list, 1, i - 1) \o SubSeq(list, i + 1, Len(list))

C10_MatchedCount == Cardinality({i \in 1..Len(pm.matched) : pm.matched[i] = 1})

\* C10: in the line-item loop, a matched invoice item removes exactly the PO
\* item it matched from the remaining pool, an unmatched one leaves the pool
\* as it is, and after k invoice items the number matched plus the size of
\* the pool is the number of PO items.
C10_EachPoItemConsumedOnce ==
    /\ [](pm.pc \in {"loop", "missing", "summary", "return"} =>
            /\ Len(pm.matched) = pm.k - 1
            /\ C10_MatchedCount + Len(pm.po_items_remaining) = Len(pm.po_data.items))
    /\ [][pm.pc = "loop" /\ pm'.pc = "loop" =>
            LET hit == C10_FirstContaining(pm.invoice_data.items[pm.k],
                                           pm.po_items_remaining)
            IN  /\ pm'.k = pm.k + 1
                /\ IF pm'.matched[pm.k] = 1
                   THEN /\ hit # 0
                        /\ pm'.po_items_remaining = C10_Without(pm.po_items_remaining, hit)
                   ELSE pm'.po_items_remaining = pm.po_items_remaining]_vars

\* C10 witness: of two PO items one was consumed by an invoice item that
\* differs from it in quantity, and the other is left over after an unmatched
\* invoice item.
C10_Witness ==
    /\ pm.pc = "return"
    /\ pm.matched = <<1, 0>>
    /\ Len(pm.po_data.items) = 2
    /\ Len(pm.po_items_remaining) = 1
    /\ \E i \in 1..Len(pm.results.details) : pm.results.details[i][1] = "QTY MISMATCH"

\* the call of find_best_item_match the loop is about to make
C11_Call == find_best_item_match(pm.invoice_data.items[pm.k], pm.po_items_remaining)

C11_AtCall == pm.pc = "loop" /\ pm.k <= Len(pm.invoice_data.items)

\* C11: find_best_item_match returns the first item of the pool, in pool
\* order, whose normalized description contains or is contained in the
\* invoice item's; it returns None exactly when the pool has no such item;
\* and it leaves the pool as it found it.
C11_FirstContainingOrNone ==
    C11_AtCall =>
        LET inv_norm == normalize_text(pm.invoice_data.items[pm.k].description)
            pool == pm.po_items_remaining
            Fits(i) == LET po_norm == normalize_text(pool[i].description)
                       IN  Contains(po_norm, inv_norm) \/ Contains(inv_norm, po_norm)
        IN  /\ C11_Call.exc = ""
            /\ C11_Call.index \in 0..Len(pool)
            /\ C11_Call.index # 0 =>
                   /\ Fits(C11_Call.index)
                   /\ \A i \in 1..(C11_Call.index - 1) : ~Fits(i)
            /\ C11_Call.index = 0 <=> \A i \in 1..Len(pool) : ~Fits(i)
            /\ C11_Call.po_items = pool

\* C11 witness: a pool of two whose first item does not fit and whose second
\* is contained in the invoice item's description (not the other way round).
C11_Witness ==
    /\ C11_AtCall
    /\ Len(pm.po_items_remaining) = 2
    /\ C11_Call.index = 2
    /\ ~Contains(normalize_text(pm.po_items_remaining[2].description),
                 normalize_text(pm.invoice_data.items[pm.k].description))
\* the call with the two documents exchanged
C12_Reverse == perform_matching(pm.po_data, pm.invoice_data)

\* C12: for structured documents A and B (every field populated),
\* perform_matching(A, B) and perform_matching(B, A) both return and agree on
\* isMatch.
C12_IsMatchSymmetric ==
    pm.pc = "return" /\ WellFormed(pm.invoice_data) /\ WellFormed(pm.po_data) =>
        /\ C12_Reverse.pc = "return"
        /\ C12_Reverse.results.isMatch = pm.results.isMatch

\* C12 witness: two documents of two items each, listed in different orders
\* and with different vendor and total text, matched in both directions.
C12_Witness ==
    /\ pm.pc = "return"
    /\ WellFormed(pm.invoice_data) /\ WellFormed(pm.po_data)
    /\ Len(pm.invoice_data.items) = 2
    /\ pm.invoice_data.items # pm.po_data.items
    /\ pm.invoice_data.vendor_name # pm.po_data.vendor_name
    /\ pm.invoice_data.total_amount # pm.po_data.total_amount
    /\ pm.results.isMatch
    /\ C12_Reverse.results.isMatch

C13_Identical == pm.invoice_data = pm.po_data /\ WellFormed(pm.invoice_data)

\* C13: an invoice reconciled against a PO with the same vendor, total and
\* line items in the same order returns isMatch = true, status APPROVED, no
\* mismatch category and the 'all line items verified' line as its last
\* detail, whatever the number of items and also when their descriptions
\* contain one another.
C13_IdenticalDocumentsApproved ==
    C13_Identical =>
        /\ pm.pc # "raise"
        /\ pm.pc = "return" =>
              /\ pm.results.isMatch
              /\ pm.results.status = "APPROVED"
              /\ pm.results.mismatch_categories = <<>>
              /\ Len(pm.results.details) = 3
              /\ pm.results.details[3] = <<"All Line Items Verified.">>

\* C13 witness: identical documents of two different items, the description
\* of the first contained in that of the second, have been approved.
C13_Witness ==
    /\ C13_Identical
    /\ pm.pc = "return"
    /\ pm.results.isMatch
    /\ Len(pm.po_data.items) = 2
    /\ pm.po_data.items[1] # pm.po_data.items[2]
    /\ Contains(normalize_text(pm.po_data.items[2].description),
                normalize_text(pm.po_data.items[1].description))

\* C14: perform_matching never raises on documents in which vendor_name,
\* total_amount, items, or an item's description, quantity or unit_price is
\* absent or null: it returns a result.
C14_NeverRaisesOnMissingFields ==
    ~WellFormed(pm.invoice_data) \/ ~WellFormed(pm.po_data) => pm.pc # "raise"

\* C15: normalize_text is idempotent, and what it returns holds only
\* lower-case ASCII letters, digits and single spaces, with no space at
\* either end.
C15_NormalizeIdempotent ==
    nt.pc = "return" =>
        LET out == nt.text
            IsLetterOrDigit(c) ==
                \/ \E i \in 1..Len(LowerChars) : LowerChars[i] = c
                \/ c \in {"0", "1", "2", "3", "4", "5", "6", "7", "8", "9"}
        IN  /\ normalize_text(out) = out
            /\ \A i \in 1..Len(out) : IsLetterOrDigit(out[i]) \/ out[i] = " "
            /\ \A i \in 1..(Len(out) - 1) : ~(out[i] = " " /\ out[i + 1] = " ")
            /\ out # <<>> => out[1] # " " /\ out[Len(out)] # " "

\* C15 witness: a string of an upper-case letter, a tab, a blank and a digit
\* has been normalized to "a 7".
C15_Witness ==
    /\ nt.pc = "return"
    /\ nt.arg = <<"A", "\t", " ", "7">>
    /\ nt.text = <<"a", " ", "7">>

\* C16: a job's record changes only in a step of that job's own thread, which
\* changes no other record, and no record ever leaves the table.
C16_WritesOwnRecordOnly ==
    [][/\ Known \subseteq DOMAIN job_manager'
       /\ \A i \in Known :
            job_manager'[i] # job_manager[i] =>
                /\ t_pc[i] \notin {"unstarted", "done", "KeyError"}
                /\ t_pc'[i] # t_pc[i]
                /\ \A j \in Known \ {i} :
                     /\ t_pc'[j] = t_pc[j]
                     /\ job_manager'[j] = job_manager[j]]_vars

\* C16 witness: two threads are running at once, one about to mark its job
\* completed and the other about to mark its job failed.
C16_Witness ==
    /\ Known = {1, 2}
    /\ t_pc[1] = "L98" /\ t_pc[2] = "L105"
    /\ job_manager[1].results # None /\ job_manager[2].results = None
    /\ job_manager[1].error = None /\ job_manager[2].error # None

\* the calls thread j has made so far
CallsOf(j) == t_loc[j].calls

\* the text signals an extraction failure: it begins with "Error"
C17_Signals(text) ==
    Len(text) >= 5 /\ SubSeq(text, 1, 5) = <<"E", "r", "r", "o", "r">>

\* both texts were extracted and at least one signals a failure
C17_ExtractionFailure(j) ==
    /\ Len(CallsOf(j)) >= 2
    /\ CallsOf(j)[2].out # None
    /\ C17_Signals(CallsOf(j)[1].out[1]) \/ C17_Signals(CallsOf(j)[2].out[1])

\* C17: the thread first extracts the invoice text and then the PO text; if
\* either text signals an extraction failure, no further call is made
\* (neither gemini_extract_data nor perform_matching), and the job ends failed
\* with an error that holds both extracted texts.
C17_ExtractionFailureAbortsJob ==
    \A j \in JobIds :
        /\ Len(CallsOf(j)) >= 1 =>
               /\ CallsOf(j)[1].fn = "extract_text_from_file"
               /\ CallsOf(j)[1].doc = "Invoice"
        /\ Len(CallsOf(j)) >= 2 =>
               /\ CallsOf(j)[2].fn = "extract_text_from_file"
               /\ CallsOf(j)[2].doc = "Purchase Order"
        /\ C17_ExtractionFailure(j) =>
               /\ Len(CallsOf(j)) = 2
               /\ t_pc[j] \in {"L54", "L103", "L105", "L106", "done"}
               /\ job_manager[j].status # "completed"
               /\ t_pc[j] = "done" =>
                      /\ job_manager[j].status = "failed"
                      /\ job_manager[j].error =
                             Some(<<"File Extraction Error",
                                    CallsOf(j)[1].out[1], CallsOf(j)[2].out[1]>>)

\* C17 witness: with a client configured, a job whose invoice text was fine
\* and whose PO text signalled a failure has ended as failed after its two
\* extraction calls.
C17_Witness ==
    \E j \in Known :
        /\ client
        /\ t_pc[j] = "done"
        /\ C17_ExtractionFailure(j)
        /\ ~C17_Signals(CallsOf(j)[1].out[1])
        /\ job_manager[j].status = "failed"

C18_IsExtraction(call, doc) == call.fn = "gemini_extract_data" /\ call.doc = doc

C18_Succeeded(call) == call.out # None /\ call.out[1].kind = "doc"

\* what C18 says of job j apart from when perform_matching may be called:
\* the PO is extracted right after a successful invoice extraction; an
\* extraction that returns the error key is the thread's last call and the
\* job ends failed with the message naming that document; a job is completed
\* only after perform_matching was called, with the result of the call stored
C18_Sequence(j) ==
    /\ \A k \in 1..Len(CallsOf(j)) :
         /\ C18_IsExtraction(CallsOf(j)[k], "Purchase Order") =>
                /\ k > 1
                /\ C18_IsExtraction(CallsOf(j)[k - 1], "Invoice")
                /\ C18_Succeeded(CallsOf(j)[k - 1])
         /\ CallsOf(j)[k].fn = "gemini_extract_data" /\ ~C18_Succeeded(CallsOf(j)[k]) =>
                /\ k = Len(CallsOf(j))
                /\ job_manager[j].status # "completed"
                /\ t_pc[j] = "done" =>
                       /\ job_manager[j].status = "failed"
                       /\ job_manager[j].error =
                              IF CallsOf(j)[k].doc = "Invoice"
                              THEN Some(<<"AI Extraction Error (Invoice)">>)
                              ELSE Some(<<"AI Extraction Error (PO)">>)
    /\ j \in Known /\ job_manager[j].status = "completed" =>
         /\ CallsOf(j) # <<>>
         /\ CallsOf(j)[Len(CallsOf(j))].fn = "perform_matching"
         /\ CallsOf(j)[Len(CallsOf(j))].out # None
         /\ job_manager[j].results = CallsOf(j)[Len(CallsOf(j))].out

\* perform_matching is called right after the two successful extractions
C18_AfterBothExtractions(j, k) ==
    /\ k >= 3
    /\ C18_IsExtraction(CallsOf(j)[k - 2], "Invoice") /\ C18_Succeeded(CallsOf(j)[k - 2])
    /\ C18_IsExtraction(CallsOf(j)[k - 1], "Purchase Order")
    /\ C18_Succeeded(CallsOf(j)[k - 1])

\* C18 as claimed: gemini_extract_data is called for the invoice and then for
\* the PO; an error indicator from either fails the job with a message naming
\* the document, an invoice failure preventing the PO call; perform_matching
\* is called only after both extractions succeeded; and a job is completed
\* only if perform_matching was called and its result stored.
C18_ReconcileOnlyAfterBothExtractions ==
    \A j \in JobIds :
        /\ C18_Sequence(j)
        /\ \A k \in 1..Len(CallsOf(j)) :
             CallsOf(j)[k].fn = "perform_matching" => C18_AfterBothExtractions(j, k)

\* C18 amended: with an AI client configured, the above; with none configured
\* (no GEMINI_API_KEY), gemini_extract_data is never called and
\* perform_matching is called right after the two text extractions, on the
\* two fixed mock documents.  In both cases a job is completed only if
\* perform_matching was called and its result stored.
C18_ReconcileAfterExtractionsOrMock ==
    \A j \in JobIds :
        /\ C18_Sequence(j)
        /\ \A k \in 1..Len(CallsOf(j)) :
             /\ CallsOf(j)[k].fn = "gemini_extract_data" => client
             /\ CallsOf(j)[k].fn = "perform_matching" =>
                    IF client
                    THEN C18_AfterBothExtractions(j, k)
                    ELSE /\ k = 3
                         /\ CallsOf(j)[2].fn = "extract_text_from_file"
                         /\ CallsOf(j)[k].out = Some(Line93[MockDoc, MockDoc].results)

\* C18 witness: with a client, one job has ended failed on the invoice
\* extraction, which was its last call, and another has completed after both
\* extractions and the call of perform_matching.
C18_Witness ==
    /\ client
    /\ \E j \in Known :
         /\ t_pc[j] = "done"
         /\ job_manager[j].status = "failed"
         /\ Len(CallsOf(j)) = 3
         /\ C18_IsExtraction(CallsOf(j)[3], "Invoice")
    /\ \E j \in Known :
         /\ job_manager[j].status = "completed"
         /\ Len(CallsOf(j)) = 5

\* the category is among those returned
C19_Has(category) ==
    \E i \in 1..Len(pm.results.mismatch_categories) :
        pm.results.mismatch_categories[i] = category

\* a detail line of one of the given kinds was appended
C19_Detail(kinds) ==
    \E i \in 1..Len(pm.results.details) : pm.results.details[i][1] \in kinds

\* C19: the categories perform_matching returns are exactly the failed
\* checks, each once: 'Vendor Mismatch' iff the normalized vendor names
\* differ, 'Total Price Variance' iff the totals differ by more than the
\* tolerance, 'Line Item Discrepancy' iff the line-item flag was set, which is
\* iff some pair differed in quantity or price, some invoice item was
\* unmatched or some PO item was left over.
C19_CategoriesAreTheFailedChecks ==
    pm.pc = "return" =>
        LET cats == pm.results.mismatch_categories
            inv == pm.invoice_data
            po == pm.po_data
        IN  /\ \A a, b \in 1..Len(cats) : a # b => cats[a] # cats[b]
            /\ \A a \in 1..Len(cats) :
                 cats[a] \in {"Vendor Mismatch", "Total Price Variance",
                              "Line Item Discrepancy"}
            /\ C19_Has("Vendor Mismatch") <=>
                   normalize_text(inv.vendor_name) # normalize_text(po.vendor_name)
            /\ C19_Has("Total Price Variance") <=>
                   \/ inv.total_amount - po.total_amount > Tolerance
                   \/ po.total_amount - inv.total_amount > Tolerance
            /\ C19_Has("Line Item Discrepancy") <=> pm.line_item_mismatch
            /\ pm.line_item_mismatch <=>
                   \/ C19_Detail({"QTY MISMATCH", "PRICE MISMATCH"})
                   \/ \E k \in 1..Len(pm.matched) : pm.matched[k] = 0
                   \/ pm.po_items_remaining # <<>>

\* C19 witness: vendor, total and line items all failed, the line items on
\* two unmatched invoice items and a left-over PO item, and each category is
\* returned once.
C19_Witness ==
    /\ pm.pc = "return"
    /\ Len(pm.results.mismatch_categories) = 3
    /\ pm.matched = <<0, 0>>
    /\ pm.po_items_remaining # <<>>

\* the positions of the detail lines of the given kind
C20_Lines(kind) ==
    {i \in 1..Len(pm.results.details) : pm.results.details[i][1] = kind}

\* the PO items no invoice item consumed
C20_NeverConsumed == Len(pm.po_data.items) - C10_MatchedCount

\* C20: every invoice item for which the remaining pool holds no containment
\* match gets its own 'unmatched item' line, naming it; once all invoice
\* items are processed a non-empty pool gets exactly one 'missing items' line
\* whose count is the number of PO items never consumed; and either line
\* comes with isMatch = false.
C20_UnmatchedAndMissingLines ==
    /\ [][/\ pm.pc = "loop" /\ pm.k <= Len(pm.invoice_data.items)
          /\ WellFormedItem(pm.invoice_data.items[pm.k])
          /\ C10_FirstContaining(pm.invoice_data.items[pm.k], pm.po_items_remaining) = 0
          => /\ pm'.pc = "loop"
             /\ pm'.results.details =
                    Append(pm.results.details,
                           <<"UNMATCHED ITEM", pm.invoice_data.items[pm.k].description>>)
             /\ ~pm'.results.isMatch]_vars
    /\ [](pm.pc = "return" =>
            /\ Cardinality(C20_Lines("UNMATCHED ITEM")) =
                   Cardinality({k \in 1..Len(pm.matched) : pm.matched[k] = 0})
            /\ Cardinality(C20_Lines("MISSING ITEMS")) =
                   IF C20_NeverConsumed > 0 THEN 1 ELSE 0
            /\ \A i \in C20_Lines("MISSING ITEMS") :
                   pm.results.details[i] = <<"MISSING ITEMS", C20_NeverConsumed>>
            /\ C20_Lines("UNMATCHED ITEM") \cup C20_Lines("MISSING ITEMS") # {}
                   => ~pm.results.isMatch /\ pm.results.status = "NEEDS REVIEW")

\* C20 witness: an invoice with the one item "w" against a PO with the one
\* item "a" has returned both an 'unmatched item' and a 'missing items' line,
\* with isMatch = false.
C20_Witness ==
    /\ pm.pc = "return"
    /\ Len(pm.invoice_data.items) = 1 /\ Len(pm.po_data.items) = 1
    /\ WellFormed(pm.invoice_data) /\ WellFormed(pm.po_data)
    /\ C20_Lines("UNMATCHED ITEM") # {}
    /\ C20_Lines("MISSING ITEMS") # {}
    /\ ~pm.results.isMatch

\* C21: every result perform_matching returns is consistent in itself:
\* isMatch is false exactly when mismatch_categories is non-empty, and status
\* is "NEEDS REVIEW" exactly when isMatch is false and "APPROVED" otherwise.
C21_ResultConsistent ==
    pm.pc = "return" =>
        /\ ~pm.results.isMatch <=> pm.results.mismatch_categories # <<>>
        /\ pm.results.status = "NEEDS REVIEW" <=> ~pm.results.isMatch
        /\ pm.results.status = "APPROVED" <=> pm.results.isMatch

\* C21 witness: a result was returned whose only failed check is the line
\* items: isMatch was cleared inside the loop, the category added after it,
\* and the status set at the end.
C21_Witness ==
    /\ pm.pc = "return"
    /\ pm.invoice_data.items # <<>>
    /\ ~pm.results.isMatch
    /\ pm.results.mismatch_categories = <<"Line Item Discrepancy">>
    /\ pm.results.status = "NEEDS REVIEW"

====
